---------------------------- MODULE Spec2Model ----------------------------
(***************************************************************************)
(* Wallet initialisation of the node (src/wallet/init.cpp): the option     *)
(* cross-check WalletInit::ParameterInteraction, WalletInit::Construct,    *)
(* and VerifyWallets / LoadWallets / StartWallets / FlushWallets /         *)
(* StopWallets / UnloadWallets over the process-wide wallet registry.      *)
(*                                                                         *)
(* Three specifications share the variables:                               *)
(*   SpecPI  every combination of the options ParameterInteraction reads,  *)
(*           followed by ParameterInteraction and Construct;               *)
(*   SpecVerify  every -walletdir value and wallet list, followed by       *)
(*           Construct and VerifyWallets with every answer of each         *)
(*           CWallet::Verify call;                                         *)
(*   Spec    Construct followed by the verify -> load -> start -> flush -> *)
(*           stop -> unload run over every short list of wallet            *)
(*           identifiers, with the periodic maintenance task running       *)
(*           beside the main thread once it is scheduled.                  *)
(***************************************************************************)
EXTENDS Integers, Sequences, FiniteSets, TLC

VARIABLES
    args,            \* gArgs: single-valued options, option name -> value or Unset
    user_args,       \* the options as the user gave them (never written)
    wallet_args,     \* gArgs.GetArgs("-wallet"): the configured identifiers
    wallet_set,      \* gArgs.IsArgSet("-wallet")
    minRelayTxFee,   \* ::minRelayTxFee.GetFeePerK()
    files,           \* the files that exist on disk (sentinel and wallet.dat files)
    copies,          \* fs::copy_file calls made, <<from, to>>
    pc,              \* position of the main (init / shutdown) thread
    ret,             \* last return value of each function, "none" before it ran
    initErrors,      \* InitError messages, in order
    initWarnings,    \* InitWarning messages, in order
    chain_clients,   \* interfaces.chain_clients: the wallet_files of each client
    vpwallets,       \* the wallet registry (AddWallet / RemoveWallet / GetWallets)
    handles,         \* every CWallet constructed so far: handle h -> its location path
    calls,           \* calls made into the wallet capability and the scheduler, in order
    unl,             \* UnloadWallets' locals: its copy of the registry and `wallet`
    released,        \* handles whose UnloadWallet call has completed
    maint            \* the periodic task: runs started, the snapshot it walks, its log

vars == <<args, user_args, wallet_args, wallet_set, minRelayTxFee, files, copies,
          pc, ret, initErrors, initWarnings, chain_clients, vpwallets, handles,
          calls, unl, released, maint>>

-----------------------------------------------------------------------------
(* Bounds of the model *)

\* longest list of -wallet identifiers
MaxWallets == 3
\* runs of the periodic maintenance task
MaxMaintRuns == 1

-----------------------------------------------------------------------------
(* The configuration store (gArgs) *)

Unset == "<unset>"

OptNames == {"-disablewallet", "-blocksonly", "-walletbroadcast", "-salvagewallet",
             "-rescan", "-zapwallettxes", "-persistmempool", "-upgradewallet",
             "-sysperms", "-prune", "-walletdir"}

DEFAULT_DISABLE_WALLET == FALSE
DEFAULT_BLOCKSONLY == FALSE
HIGH_TX_FEE_PER_KB == 1000000

\* atoi on the option values the model uses
Atoi(v) ==
    CASE v = "1" -> 1
      [] v = "2" -> 2
      [] v = "-1" -> -1
      [] OTHER -> 0

\* InterpretBool: an empty value ("-rescan") is true, otherwise atoi(value) != 0
InterpretBool(v) == IF v = "" THEN TRUE ELSE Atoi(v) # 0

IsArgSet(a, name) == a[name] # Unset

GetBoolArg(a, name, default) ==
    IF IsArgSet(a, name) THEN InterpretBool(a[name]) ELSE default

GetIntArg(a, name, default) ==
    IF IsArgSet(a, name) THEN Atoi(a[name]) ELSE default

ForceSetArg(a, name, value) == [a EXCEPT ![name] = value]

\* SoftSetArg: set only if unset; .set tells whether it was set
SoftSetArg(a, name, value) ==
    IF IsArgSet(a, name)
    THEN [args |-> a, set |-> FALSE]
    ELSE [args |-> ForceSetArg(a, name, value), set |-> TRUE]

SoftSetBoolArg(a, name, b) == SoftSetArg(a, name, IF b THEN "1" ELSE "0")

-----------------------------------------------------------------------------
(* WalletInit::ParameterInteraction, statement by statement.  A run is the  *)
(* record s: the options, whether the function has returned (s.ret is       *)
(* "run" until it does), and the messages raised so far.                    *)

SingleWalletError(opt) == [kind |-> "single_wallet_only", opt |-> opt]
SyspermsError == [kind |-> "sysperms", opt |-> "-sysperms"]
PruneRescanError == [kind |-> "prune_rescan", opt |-> "-prune"]
HighFeeWarning == [kind |-> "high_fee", opt |-> "-minrelaytxfee"]

\* InitError(msg): shows the message and returns false
InitErrorRet(s, msg) ==
    [s EXCEPT !.ret = "false", !.errors = Append(@, msg)]

PIStart(a) == [args |-> a, ret |-> "run", errors |-> <<>>, warnings |-> <<>>]

\* PIDisable changed not to return when wallets are disabled
PIDisableIgnored(s) == s

\* lines 77-83
PIDisable(s) ==
    IF GetBoolArg(s.args, "-disablewallet", DEFAULT_DISABLE_WALLET)
    THEN [s EXCEPT !.ret = "true"]
    ELSE s

\* line 85
IsMultiwallet(wallets) == Len(wallets) > 1

\* lines 87-89
PIBlocksonly(s) ==
    IF s.ret # "run" THEN s
    ELSE IF GetBoolArg(s.args, "-blocksonly", DEFAULT_BLOCKSONLY)
         THEN [s EXCEPT !.args = SoftSetBoolArg(s.args, "-walletbroadcast", FALSE).args]
         ELSE s

\* PISalvage changed to set -rescan over the user's value
PISalvageForcesRescan(s, wallets) ==
    IF s.ret # "run" THEN s
    ELSE IF GetBoolArg(s.args, "-salvagewallet", FALSE)
         THEN IF IsMultiwallet(wallets)
              THEN InitErrorRet(s, SingleWalletError("-salvagewallet"))
              ELSE [s EXCEPT !.args = ForceSetArg(s.args, "-rescan", "1")]
         ELSE s

\* lines 91-99
PISalvage(s, wallets) ==
    IF s.ret # "run" THEN s
    ELSE IF GetBoolArg(s.args, "-salvagewallet", FALSE)
         THEN IF IsMultiwallet(wallets)
              THEN InitErrorRet(s, SingleWalletError("-salvagewallet"))
              ELSE [s EXCEPT !.args = SoftSetBoolArg(s.args, "-rescan", TRUE).args]
         ELSE s

\* PIZapMempool changed to leave -persistmempool alone
PIZapMempoolMissing(s) == s

\* lines 101-105
PIZapMempool(s) ==
    IF s.ret # "run" THEN s
    ELSE IF GetBoolArg(s.args, "-zapwallettxes", FALSE)
         THEN [s EXCEPT !.args = SoftSetBoolArg(s.args, "-persistmempool", FALSE).args]
         ELSE s

\* PIZapRescan changed to look at -upgradewallet before it rejects
\* -zapwallettxes with several wallets
PIZapRescanAfterUpgrade(s, wallets) ==
    IF s.ret # "run" THEN s
    ELSE IF GetBoolArg(s.args, "-zapwallettxes", FALSE)
         THEN IF IsMultiwallet(wallets)
              THEN IF GetBoolArg(s.args, "-upgradewallet", FALSE)
                   THEN InitErrorRet(s, SingleWalletError("-upgradewallet"))
                   ELSE InitErrorRet(s, SingleWalletError("-zapwallettxes"))
              ELSE [s EXCEPT !.args = SoftSetBoolArg(s.args, "-rescan", TRUE).args]
         ELSE s

\* lines 107-115
PIZapRescan(s, wallets) ==
    IF s.ret # "run" THEN s
    ELSE IF GetBoolArg(s.args, "-zapwallettxes", FALSE)
         THEN IF IsMultiwallet(wallets)
              THEN InitErrorRet(s, SingleWalletError("-zapwallettxes"))
              ELSE [s EXCEPT !.args = SoftSetBoolArg(s.args, "-rescan", TRUE).args]
         ELSE s

\* PIUpgrade changed to accept -upgradewallet with several wallets
PIUpgradeMissing(s, wallets) == s

\* lines 117-121
PIUpgrade(s, wallets) ==
    IF s.ret # "run" THEN s
    ELSE IF IsMultiwallet(wallets) /\ GetBoolArg(s.args, "-upgradewallet", FALSE)
         THEN InitErrorRet(s, SingleWalletError("-upgradewallet"))
         ELSE s

\* lines 123-124
PISysperms(s) ==
    IF s.ret # "run" THEN s
    ELSE IF GetBoolArg(s.args, "-sysperms", FALSE)
         THEN InitErrorRet(s, SyspermsError)
         ELSE s

\* PIPruneRescan changed to reject only a prune target above 1 (manual
\* pruning, -prune=1, let through)
PIPruneRescanAboveOne(s) ==
    IF s.ret # "run" THEN s
    ELSE IF GetIntArg(s.args, "-prune", 0) > 1 /\ GetBoolArg(s.args, "-rescan", FALSE)
         THEN InitErrorRet(s, PruneRescanError)
         ELSE s

\* lines 125-126
PIPruneRescan(s) ==
    IF s.ret # "run" THEN s
    ELSE IF GetIntArg(s.args, "-prune", 0) # 0 /\ GetBoolArg(s.args, "-rescan", FALSE)
         THEN InitErrorRet(s, PruneRescanError)
         ELSE s

\* PIHighFee changed to warn after an error as well
PIHighFeeAfterError(s, fee) ==
    IF s.ret = "true" THEN s
    ELSE [s EXCEPT !.ret = IF s.ret = "run" THEN "true" ELSE s.ret,
                   !.warnings = IF fee > HIGH_TX_FEE_PER_KB
                                THEN Append(@, HighFeeWarning) ELSE @]

\* lines 128-132
PIHighFee(s, fee) ==
    IF s.ret # "run" THEN s
    ELSE [s EXCEPT !.ret = "true",
                   !.warnings = IF fee > HIGH_TX_FEE_PER_KB
                                THEN Append(@, HighFeeWarning) ELSE @]

\* lines 75-133
ParameterInteraction(a, wallets, fee) ==
    PIHighFee(
      PIPruneRescan(
        PISysperms(
          PIUpgrade(
            PIZapRescan(
              PIZapMempool(
                PISalvage(
                  PIBlocksonly(
                    PIDisable(PIStart(a))),
                  wallets)),
              wallets),
            wallets))),
      fee)

-----------------------------------------------------------------------------
(* Paths.  A path is the sequence of its components; an absolute path       *)
(* starts with the root component "/".  Option values and wallet            *)
(* identifiers are strings, read as paths through PathOf.                   *)

Root == "/"
DataDir == <<Root, "data">>
LegacyDataDir == <<Root, "legacy">>

\* the identifiers -wallet is given in the model
Idents == <<"a", "b", "c", "d", "/data/wallets/a">>
\* the values -walletdir is given in the model
WalletDirValues == {"/data/wallets", "/data/./wallets", "wallets",
                    "/data/db.log", "/nowhere"}

PathOf(str) ==
    CASE str = "" -> <<>>
      [] str = "a" -> <<"a">>
      [] str = "b" -> <<"b">>
      [] str = "c" -> <<"c">>
      [] str = "d" -> <<"d">>
      [] str = "/data/wallets/a" -> <<Root, "data", "wallets", "a">>
      [] str = "/data/wallets" -> <<Root, "data", "wallets">>
      [] str = "/data/./wallets" -> <<Root, "data", ".", "wallets">>
      [] str = "wallets" -> <<"wallets">>
      [] str = "/data/db.log" -> <<Root, "data", "db.log">>
      [] str = "/nowhere" -> <<Root, "nowhere">>

PathStrings == {"", "a", "b", "c", "d", "/data/wallets/a", "/data/wallets",
                "/data/./wallets", "wallets", "/data/db.log", "/nowhere"}

\* path.string()
StringOf(p) == CHOOSE str \in PathStrings : PathOf(str) = p

IsAbsolute(p) == p # <<>> /\ p[1] = Root

\* fs::absolute(p, base): p itself when absolute, otherwise base / p
Absolute(p, base) == IF IsAbsolute(p) THEN p ELSE base \o p

IsDot(c) == c = "."
NotDot(c) == ~IsDot(c)

\* fs::canonical(p): absolute from the current directory (the data
\* directory), with "." components removed
Canonical(p) == SelectSeq(Absolute(p, DataDir), NotDot)

\* the directories on disk
Dirs == {<<Root>>, DataDir, DataDir \o <<"wallets">>, LegacyDataDir}

Exists(f, p) == Canonical(p) \in Dirs \cup f
IsDirectory(p) == Canonical(p) \in Dirs

PeersDat == DataDir \o <<"peers.dat">>
DbLog == DataDir \o <<"db.log">>
WalletDat == <<"wallet.dat">>

\* GetWalletDir(): -walletdir when it names a directory (else the empty
\* path); without -walletdir, <datadir>/wallets when that is a directory
GetWalletDir(a) ==
    IF IsArgSet(a, "-walletdir")
    THEN IF IsDirectory(PathOf(a["-walletdir"])) THEN PathOf(a["-walletdir"]) ELSE <<>>
    ELSE IF IsDirectory(DataDir \o <<"wallets">>)
         THEN DataDir \o <<"wallets">> ELSE DataDir

\* WalletLocation(name).GetPath(): fs::absolute(name, GetWalletDir())
LocationOfPath(a, p) == Absolute(p, GetWalletDir(a))
WalletLocation(a, name) == LocationOfPath(a, PathOf(name))

-----------------------------------------------------------------------------
(* Calls into the wallet capability and the scheduler *)

NoFile == "<none>"
\* op(arg, file, flag) returned res
Call(op, arg, file, flag, res) ==
    [op |-> op, arg |-> arg, file |-> file, flag |-> flag, res |-> res]

CallsOf(cs, op) == SelectSeq(cs, LAMBDA c : c.op = op)

Range(seq) == {seq[i] : i \in 1..Len(seq)}

-----------------------------------------------------------------------------
(* The wallet registry (vpwallets, under cs_wallets) *)

\* AddWallet: append unless already a member
AddWallet(reg, h) == IF h \in Range(reg) THEN reg ELSE Append(reg, h)

\* RemoveWallet: erase the handle
RemoveWallet(reg, h) == SelectSeq(reg, LAMBDA x : x # h)

\* GetWallets: a copy of the registry
GetWallets(reg) == reg

-----------------------------------------------------------------------------
(* VerifyWallets *)

VerifyOutcomes == {"ok", "warn", "bad"}

WalletDirError(kind, wd) == [kind |-> kind, opt |-> wd]

\* VerifyWalletDir changed to leave the configured spelling in place
VerifyWalletDirKeepsSpelling(s, f) ==
    IF ~IsArgSet(s.args, "-walletdir") THEN s
    ELSE LET wd == s.args["-walletdir"]
             wallet_dir == PathOf(wd)
         IN  IF ~Exists(f, wallet_dir)
             THEN InitErrorRet(s, WalletDirError("walletdir_not_exist", wd))
             ELSE IF ~IsDirectory(wallet_dir)
             THEN InitErrorRet(s, WalletDirError("walletdir_not_directory", wd))
             ELSE IF ~IsAbsolute(wallet_dir)
             THEN InitErrorRet(s, WalletDirError("walletdir_relative", wd))
             ELSE s

\* lines 137-151: the -walletdir checks
VerifyWalletDir(s, f) ==
    IF ~IsArgSet(s.args, "-walletdir") THEN s
    ELSE LET wd == s.args["-walletdir"]
             wallet_dir == PathOf(wd)
         IN  IF ~Exists(f, wallet_dir)
             THEN InitErrorRet(s, WalletDirError("walletdir_not_exist", wd))
             ELSE IF ~IsDirectory(wallet_dir)
             THEN InitErrorRet(s, WalletDirError("walletdir_not_directory", wd))
             ELSE IF ~IsAbsolute(wallet_dir)
             THEN InitErrorRet(s, WalletDirError("walletdir_relative", wd))
             ELSE [s EXCEPT !.args =
                      ForceSetArg(s.args, "-walletdir", StringOf(Canonical(wallet_dir)))]

\* SalvageWallet changed not to look at the number of wallets
SalvageWalletAnyCount(a, wallet_files) ==
    GetBoolArg(a, "-salvagewallet", FALSE)

\* line 160
SalvageWallet(a, wallet_files) ==
    GetBoolArg(a, "-salvagewallet", FALSE) /\ Len(wallet_files) <= 1

\* IsDuplicate changed to accept every path
IsDuplicateNever(wallet_paths, path) == FALSE

\* lines 168-170: the path is inserted into wallet_paths; a path already
\* there is the duplicate error
IsDuplicate(wallet_paths, path) == path \in wallet_paths

DuplicateError(wallet_file) == [kind |-> "duplicate", opt |-> wallet_file]
VerifyError(wallet_file) == [kind |-> "verify_error", opt |-> wallet_file]
VerifyWarning(wallet_file) == [kind |-> "verify_warning", opt |-> wallet_file]

\* VerifyOne changed to go on after a failed verification
VerifyOneIgnoresFailure(s, wallet_file, salvage_wallet, outcome) ==
    LET called == [s EXCEPT !.calls =
                      Append(@, Call("Verify", 0, wallet_file, salvage_wallet, outcome))]
    IN  CASE outcome = "ok" -> called
          [] outcome = "warn" ->
                [called EXCEPT !.warnings = Append(@, VerifyWarning(wallet_file))]
          [] outcome = "bad" ->
                [called EXCEPT !.errors = Append(@, VerifyError(wallet_file))]

\* lines 172-177: one CWallet::Verify call and what is done with its result
VerifyOne(s, wallet_file, salvage_wallet, outcome) ==
    LET called == [s EXCEPT !.calls =
                      Append(@, Call("Verify", 0, wallet_file, salvage_wallet, outcome))]
    IN  CASE outcome = "ok" -> called
          [] outcome = "warn" ->
                [called EXCEPT !.warnings = Append(@, VerifyWarning(wallet_file))]
          [] outcome = "bad" ->
                [called EXCEPT !.errors = Append(@, VerifyError(wallet_file)),
                               !.ret = "false"]

\* VerifyLoop changed to look for the duplicate after verifying the wallet
RECURSIVE VerifyLoopVerifiesFirst(_, _, _, _, _)
VerifyLoopVerifiesFirst(s, wallet_files, outcomes, k, wallet_paths) ==
    IF s.ret # "run" THEN s
    ELSE IF k > Len(wallet_files) THEN [s EXCEPT !.ret = "true"]
    ELSE LET wallet_file == wallet_files[k]
             path == WalletLocation(s.args, wallet_file)
             verified == VerifyOne(s, wallet_file,
                                   SalvageWallet(s.args, wallet_files), outcomes[k])
         IN  IF verified.ret = "run" /\ IsDuplicate(wallet_paths, path)
             THEN InitErrorRet(verified, DuplicateError(wallet_file))
             ELSE VerifyLoopVerifiesFirst(verified, wallet_files, outcomes, k + 1,
                                          wallet_paths \cup {path})

\* lines 165-178: the loop, from position k with the paths seen so far
RECURSIVE VerifyLoop(_, _, _, _, _)
VerifyLoop(s, wallet_files, outcomes, k, wallet_paths) ==
    IF s.ret # "run" THEN s
    ELSE IF k > Len(wallet_files) THEN [s EXCEPT !.ret = "true"]
    ELSE LET wallet_file == wallet_files[k]
             path == WalletLocation(s.args, wallet_file)
         IN  IF IsDuplicate(wallet_paths, path)
             THEN InitErrorRet(s, DuplicateError(wallet_file))
             ELSE VerifyLoop(
                    VerifyOne(s, wallet_file,
                              SalvageWallet(s.args, wallet_files), outcomes[k]),
                    wallet_files, outcomes, k + 1, wallet_paths \cup {path})

\* lines 135-181
VerifyWallets(a, f, wallet_files, outcomes) ==
    VerifyLoop(
      VerifyWalletDir(
        [args |-> a, ret |-> "run", errors |-> <<>>, warnings |-> <<>>,
         calls |-> <<>>], f),
      wallet_files, outcomes, 1, {})

-----------------------------------------------------------------------------
(* WalletInit::Construct *)

\* the directory a file is in
ParentPath(p) == SubSeq(p, 1, Len(p) - 1)

\* fs::copy_file(from, to, fail_if_exists): throws when `to` exists or the
\* directory it is to be made in does not
CopyFile(st, from, to) ==
    IF Canonical(to) \in st.files \/ ParentPath(Canonical(to)) \notin Dirs
    THEN [st EXCEPT !.threw = TRUE]
    ELSE [st EXCEPT !.files = @ \cup {Canonical(to)},
                    !.copies = Append(@, <<from, to>>)]

\* MigrateLegacy changed not to look for a wallet.dat in the data directory
MigrateLegacyIgnoresDataDirWallet(st, a) ==
    LET firstTimeLoad == ~Exists(st.files, PeersDat)
        defaultWallet2 == LocationOfPath(a, GetWalletDir(a) \o WalletDat)
        legacyWallet == LocationOfPath(a, LegacyDataDir \o WalletDat)
    IN  IF firstTimeLoad
           /\ ~Exists(st.files, defaultWallet2)
           /\ Exists(st.files, legacyWallet)
        THEN CopyFile(st, legacyWallet, defaultWallet2)
        ELSE st

\* lines 189-204: the copy of the legacy wallet on a first-time load
MigrateLegacy(st, a) ==
    LET firstTimeLoad == ~Exists(st.files, PeersDat)
        defaultWallet1 == LocationOfPath(a, DataDir \o WalletDat)
        defaultWallet2 == LocationOfPath(a, GetWalletDir(a) \o WalletDat)
        legacyWallet == LocationOfPath(a, LegacyDataDir \o WalletDat)
    IN  IF firstTimeLoad
           /\ ~Exists(st.files, defaultWallet1)
           /\ ~Exists(st.files, defaultWallet2)
           /\ Exists(st.files, legacyWallet)
        THEN CopyFile(st, legacyWallet, defaultWallet2)
        ELSE st

\* lines 205-206: -wallet defaults to the one wallet "", and the wallet
\* client is made over the configured identifiers
MakeWalletClient(st) ==
    LET wallets == IF st.wallet_set THEN st.wallet_args ELSE <<"">>
    IN  [st EXCEPT !.wallet_args = wallets, !.wallet_set = TRUE,
                   !.chain_clients = Append(@, wallets)]

\* lines 183-207
ConstructOp(a, st) ==
    IF GetBoolArg(a, "-disablewallet", DEFAULT_DISABLE_WALLET)
    THEN st
    ELSE LET m == MigrateLegacy(st, a)
         IN  IF m.threw THEN m ELSE MakeWalletClient(m)

-----------------------------------------------------------------------------
(* LoadWallets *)

\* LoadLoop changed to skip a wallet that cannot be constructed and go on
RECURSIVE LoadLoopSkipsFailure(_, _, _, _, _)
LoadLoopSkipsFailure(st, a, wallet_files, created, k) ==
    IF k > Len(wallet_files) THEN [st EXCEPT !.ret = "true"]
    ELSE LET walletFile == wallet_files[k]
             called == [st EXCEPT !.calls =
                          Append(@, Call("Create", 0, walletFile, FALSE,
                                         IF created[k] THEN "wallet" ELSE "null"))]
         IN  IF ~created[k]
             THEN LoadLoopSkipsFailure(called, a, wallet_files, created, k + 1)
             ELSE LET pwallet == Len(st.handles) + 1
                  IN  LoadLoopSkipsFailure(
                        [called EXCEPT
                           !.handles = Append(@, WalletLocation(a, walletFile)),
                           !.vpwallets = AddWallet(@, pwallet)],
                        a, wallet_files, created, k + 1)

\* lines 211-217: the loop from position k; created[k] tells whether
\* CWallet::CreateWalletFromFile returns a wallet for wallet_files[k]
RECURSIVE LoadLoop(_, _, _, _, _)
LoadLoop(st, a, wallet_files, created, k) ==
    IF k > Len(wallet_files) THEN [st EXCEPT !.ret = "true"]
    ELSE LET walletFile == wallet_files[k]
             called == [st EXCEPT !.calls =
                          Append(@, Call("Create", 0, walletFile, FALSE,
                                         IF created[k] THEN "wallet" ELSE "null"))]
         IN  IF ~created[k]
             THEN [called EXCEPT !.ret = "false"]
             ELSE LET pwallet == Len(st.handles) + 1
                  IN  LoadLoop(
                        [called EXCEPT
                           !.handles = Append(@, WalletLocation(a, walletFile)),
                           !.vpwallets = AddWallet(@, pwallet)],
                        a, wallet_files, created, k + 1)

\* lines 209-220
LoadWallets(a, reg, hs, wallet_files, created) ==
    LoadLoop([vpwallets |-> reg, handles |-> hs, calls |-> <<>>, ret |-> "run"],
             a, wallet_files, created, 1)

-----------------------------------------------------------------------------
(* StartWallets, FlushWallets, StopWallets *)

SCHEDULE_INTERVAL == 500

\* how a call on a wallet ends: it returns, it returns after a failure it
\* has dealt with itself (the calls return nothing), or it throws
DrainOutcomes == {"ok", "failed", "threw"}

\* outcomes[i] is how the call on the i-th handle ends if it is made
Threw(outcomes) == \E i \in 1..Len(outcomes) : outcomes[i] = "threw"

\* the calls made before an exception leaves the loop: all of them, or those
\* up to the first that throws (nothing in the loops catches)
CallsMade(outcomes) ==
    IF Threw(outcomes)
    THEN CHOOSE k \in 1..Len(outcomes) :
            outcomes[k] = "threw" /\ \A j \in 1..(k - 1) : outcomes[j] # "threw"
    ELSE Len(outcomes)

\* ForEachWallet changed to catch what a call throws and go on
ForEachWalletCatches(reg, op, flag, outcomes) ==
    [i \in 1..Len(GetWallets(reg)) |->
        Call(op, GetWallets(reg)[i], NoFile, flag, outcomes[i])]

\* the calls of one loop over GetWallets(): op on each handle, in order
ForEachWallet(reg, op, flag, outcomes) ==
    [i \in 1..CallsMade(outcomes) |->
        Call(op, GetWallets(reg)[i], NoFile, flag, outcomes[i])]

\* StartWallets changed to schedule the task before it calls the hooks
StartWalletsSchedulesFirst(reg, outcomes) ==
    <<Call("scheduleEvery", SCHEDULE_INTERVAL, NoFile, FALSE, "")>>
       \o ForEachWallet(reg, "postInitProcess", FALSE, outcomes)

\* lines 222-230
StartWallets(reg, outcomes) ==
    ForEachWallet(reg, "postInitProcess", FALSE, outcomes)
       \o IF Threw(outcomes) THEN <<>>
          ELSE <<Call("scheduleEvery", SCHEDULE_INTERVAL, NoFile, FALSE, "")>>

\* FlushWallets changed to go through the registry from its last handle
FlushWalletsFromLast(reg, outcomes) ==
    [i \in 1..CallsMade(outcomes) |->
        Call("Flush", GetWallets(reg)[Len(GetWallets(reg)) - i + 1], NoFile, FALSE,
             outcomes[i])]

\* lines 232-237
FlushWallets(reg, outcomes) == ForEachWallet(reg, "Flush", FALSE, outcomes)

\* StopWallets changed to ask for the soft flush
StopWalletsSoft(reg, outcomes) == ForEachWallet(reg, "Flush", FALSE, outcomes)

\* lines 239-244
StopWallets(reg, outcomes) == ForEachWallet(reg, "Flush", TRUE, outcomes)

-----------------------------------------------------------------------------
(* The caller: AppInitParameterInteraction, AppInitMain and Shutdown call   *)
(* the functions above in this order; a failed step of the start-up goes    *)
(* to the shutdown sequence, which is flush, stop, unload.                  *)

AfterStep(phase, ok) ==
    CASE phase = "pi" -> IF ok THEN "construct" ELSE "exit"
      [] phase = "construct" -> IF ok THEN "verify" ELSE "exit"
      [] phase = "verify" -> IF ok THEN "load" ELSE "flush"
      [] phase = "load" -> IF ok THEN "start" ELSE "flush"
      [] phase = "start" -> "flush"
      [] phase = "flush" -> "stop"
      [] phase = "stop" -> "unload"
      [] phase = "unload" -> "done"

\* the wallet client made by Construct, if any
HasClient == chain_clients # <<>>
ClientFiles == chain_clients[1]

-----------------------------------------------------------------------------
(* Initial states *)

NoArgs == [o \in OptNames |-> Unset]

WalletLists == UNION {[1..n -> Range(Idents)] : n \in 0..MaxWallets}

\* the disk of a first start after an upgrade: the legacy wallet is there,
\* the sentinel and the new-layout wallets are not
FirstStartFiles == {DbLog, LegacyDataDir \o WalletDat}

\* the disk of a node that has run before: the sentinel and a wallet of the
\* new layout are there
LaterStartFiles == {DbLog, PeersDat, DataDir \o <<"wallets">> \o WalletDat}

InitCommon ==
    /\ user_args = args
    /\ copies = <<>>
    /\ ret = [f \in {"pi", "construct", "verify", "load"} |-> "none"]
    /\ initErrors = <<>>
    /\ initWarnings = <<>>
    /\ chain_clients = <<>>
    /\ vpwallets = <<>>
    /\ handles = <<>>
    /\ calls = <<>>
    /\ unl = [wallets |-> <<>>, wallet |-> 0, releasing |-> FALSE]
    /\ released = {}
    /\ maint = [runs |-> 0, snap |-> <<>>, log |-> <<>>]

\* Spec: the options the lifecycle functions read; -walletdir is unset or
\* names the wallet directory in a spelling VerifyWallets rewrites; an empty
\* wallet list is -wallet not given, or given and negated (-nowallet)
Init ==
    /\ \E d \in {Unset, "1"}, sv \in {Unset, "1"}, wd \in {Unset, "/data/./wallets"} :
          args = [NoArgs EXCEPT !["-disablewallet"] = d,
                                !["-salvagewallet"] = sv,
                                !["-walletdir"] = wd]
    /\ wallet_args \in WalletLists
    /\ wallet_set \in {wallet_args # <<>>, TRUE}
    /\ files = FirstStartFiles
    /\ minRelayTxFee = HIGH_TX_FEE_PER_KB
    /\ pc = "construct"
    /\ InitCommon

\* SpecVerify: every -walletdir value and every wallet list, on the disk of
\* a node that has run before
InitVerify ==
    /\ \E d \in {Unset, "1"}, sv \in {Unset, "1"}, wd \in {Unset} \cup WalletDirValues :
          args = [NoArgs EXCEPT !["-disablewallet"] = d,
                                !["-salvagewallet"] = sv,
                                !["-walletdir"] = wd]
    /\ wallet_args \in WalletLists
    /\ wallet_set = (wallet_args # <<>>)
    /\ files = LaterStartFiles
    /\ minRelayTxFee = HIGH_TX_FEE_PER_KB
    /\ pc = "construct"
    /\ InitCommon

\* SpecPI: the options ParameterInteraction reads
Flag == {Unset, "1"}
Tri == {Unset, "0", "1"}

PIArgs ==
    {[NoArgs EXCEPT !["-disablewallet"] = d, !["-blocksonly"] = bo,
                    !["-walletbroadcast"] = wb, !["-salvagewallet"] = sv,
                    !["-rescan"] = rs, !["-zapwallettxes"] = zp,
                    !["-persistmempool"] = pm, !["-upgradewallet"] = up,
                    !["-sysperms"] = sp, !["-prune"] = pr] :
        d \in Flag, bo \in Flag, wb \in Tri, sv \in Flag, rs \in Tri,
        zp \in {Unset, "1", "2"}, pm \in Tri, up \in Flag, sp \in Flag,
        pr \in {Unset, "1", "-1"}}

\* the first n identifiers of a, b, c, d, /data/wallets/a, a, ...
FirstIdents(n) == [i \in 1..n |-> Idents[((i - 1) % Len(Idents)) + 1]]

InitPI ==
    /\ args \in PIArgs
    /\ wallet_args \in {FirstIdents(n) : n \in 0..MaxWallets}
    /\ wallet_set = (wallet_args # <<>>)
    /\ files = FirstStartFiles
    /\ minRelayTxFee \in {HIGH_TX_FEE_PER_KB, HIGH_TX_FEE_PER_KB + 1}
    /\ pc = "pi"
    /\ InitCommon

\* SpecMigrate: every disk WalletInit::Construct tells apart
MigrationFiles == {PeersDat, DataDir \o WalletDat,
                   DataDir \o <<"wallets">> \o WalletDat, LegacyDataDir \o WalletDat}

InitMigrate ==
    /\ \E d \in {Unset, "1"}, wd \in {Unset} \cup WalletDirValues :
          args = [NoArgs EXCEPT !["-disablewallet"] = d, !["-walletdir"] = wd]
    /\ wallet_args \in {FirstIdents(n) : n \in 0..MaxWallets}
    /\ wallet_set = (wallet_args # <<>>)
    /\ \E present \in SUBSET MigrationFiles : files = {DbLog} \cup present
    /\ minRelayTxFee = HIGH_TX_FEE_PER_KB
    /\ pc = "construct"
    /\ InitCommon

\* SpecDrain: wallets enabled, one to MaxWallets wallets
InitDrain ==
    /\ args = NoArgs
    /\ wallet_args \in {FirstIdents(n) : n \in 0..MaxWallets}
    /\ wallet_set = (wallet_args # <<>>)
    /\ files = LaterStartFiles
    /\ minRelayTxFee = HIGH_TX_FEE_PER_KB
    /\ pc = "construct"
    /\ InitCommon

-----------------------------------------------------------------------------
(* Actions of the main thread *)

ParameterInteractionStep ==
    /\ pc = "pi"
    /\ LET r == ParameterInteraction(args, wallet_args, minRelayTxFee)
       IN  /\ args' = r.args
           /\ ret' = [ret EXCEPT !["pi"] = r.ret]
           /\ initErrors' = initErrors \o r.errors
           /\ initWarnings' = initWarnings \o r.warnings
           /\ pc' = AfterStep("pi", r.ret = "true")
    /\ UNCHANGED <<user_args, wallet_args, wallet_set, minRelayTxFee, files, copies,
                   chain_clients, vpwallets, handles, calls, unl, released, maint>>

Construct ==
    /\ pc = "construct"
    /\ LET r == ConstructOp(args,
                   [files |-> files, copies |-> copies, threw |-> FALSE,
                    wallet_args |-> wallet_args, wallet_set |-> wallet_set,
                    chain_clients |-> chain_clients])
       IN  /\ files' = r.files
           /\ copies' = r.copies
           /\ wallet_args' = r.wallet_args
           /\ wallet_set' = r.wallet_set
           /\ chain_clients' = r.chain_clients
           /\ ret' = [ret EXCEPT !["construct"] = IF r.threw THEN "threw" ELSE "done"]
           /\ pc' = AfterStep("construct", ~r.threw)
    /\ UNCHANGED <<args, user_args, minRelayTxFee, initErrors, initWarnings,
                   vpwallets, handles, calls, unl, released, maint>>

\* VerifyWallets run by the wallet client, CWallet::Verify answering each
\* call with one of `answers`
VerifyWith(answers) ==
    /\ pc = "verify"
    /\ IF HasClient
       THEN \E outcomes \in [1..Len(ClientFiles) -> answers] :
              LET r == VerifyWallets(args, files, ClientFiles, outcomes)
              IN  /\ args' = r.args
                  /\ ret' = [ret EXCEPT !["verify"] = r.ret]
                  /\ initErrors' = initErrors \o r.errors
                  /\ initWarnings' = initWarnings \o r.warnings
                  /\ calls' = calls \o r.calls
                  /\ pc' = AfterStep("verify", r.ret = "true")
       ELSE /\ pc' = AfterStep("verify", TRUE)
            /\ UNCHANGED <<args, ret, initErrors, initWarnings, calls>>
    /\ UNCHANGED <<user_args, wallet_args, wallet_set, minRelayTxFee, files, copies,
                   chain_clients, vpwallets, handles, unl, released, maint>>

\* in SpecVerify: every answer of CWallet::Verify
Verify == VerifyWith(VerifyOutcomes)

\* in Spec: a warning changes nothing VerifyWallets or a later step does, so
\* the lifecycle is explored with the answers that do
VerifyNoWarning == VerifyWith({"ok", "bad"})

Load ==
    /\ pc = "load"
    /\ IF HasClient
       THEN \E created \in [1..Len(ClientFiles) -> BOOLEAN] :
              LET r == LoadWallets(args, vpwallets, handles, ClientFiles, created)
              IN  /\ vpwallets' = r.vpwallets
                  /\ handles' = r.handles
                  /\ calls' = calls \o r.calls
                  /\ ret' = [ret EXCEPT !["load"] = r.ret]
                  /\ pc' = AfterStep("load", r.ret = "true")
       ELSE /\ pc' = AfterStep("load", TRUE)
            /\ UNCHANGED <<vpwallets, handles, calls, ret>>
    /\ UNCHANGED <<args, user_args, wallet_args, wallet_set, minRelayTxFee, files,
                   copies, initErrors, initWarnings, chain_clients, unl, released, maint>>

\* the calls the function of the phase makes
CallsIn(phase, reg, outcomes) ==
    CASE phase = "start" -> StartWallets(reg, outcomes)
      [] phase = "flush" -> FlushWallets(reg, outcomes)
      [] phase = "stop" -> StopWallets(reg, outcomes)

\* a step of the main thread that only makes calls, each ending in one of
\* `answers`; an exception leaves the function and ends the run
CallStep(phase, answers) ==
    /\ pc = phase
    /\ IF HasClient
       THEN \E outcomes \in [1..Len(vpwallets) -> answers] :
               /\ calls' = calls \o CallsIn(phase, vpwallets, outcomes)
               /\ pc' = IF Threw(outcomes) THEN "exit" ELSE AfterStep(phase, TRUE)
       ELSE /\ pc' = AfterStep(phase, TRUE)
            /\ UNCHANGED calls
    /\ UNCHANGED <<args, user_args, wallet_args, wallet_set, minRelayTxFee, files,
                   copies, ret, initErrors, initWarnings, chain_clients, vpwallets,
                   handles, unl, released, maint>>

\* in Spec: every call on a wallet returns
Start == CallStep("start", {"ok"})

Flush == CallStep("flush", {"ok"})

Stop == CallStep("stop", {"ok"})

\* in SpecDrain: a call on a wallet may fail or throw
StartMayThrow == CallStep("start", DrainOutcomes)

FlushMayThrow == CallStep("flush", DrainOutcomes)

StopMayThrow == CallStep("stop", DrainOutcomes)

\* The process is started again with the same command line on the disk the
\* run before left; the node may have written its peers.dat meanwhile.
\* -wallet is read again: the "" WalletInit::Construct soft-set is gone.
Restart ==
    /\ pc \in {"verify", "exit"}
    /\ ret["construct"] # "none"
    /\ pc' = "construct"
    /\ chain_clients' = <<>>
    /\ wallet_args' = IF wallet_args = <<"">> THEN <<>> ELSE wallet_args
    /\ wallet_set' = (wallet_args' # <<>>)
    /\ files' \in {files, files \cup {PeersDat}}
    /\ UNCHANGED <<args, user_args, minRelayTxFee, copies, ret, initErrors,
                   initWarnings, vpwallets, handles, calls, unl, released, maint>>

-----------------------------------------------------------------------------
(* UnloadWallets, one statement at a time *)

UnloadFrame == <<args, user_args, wallet_args, wallet_set, minRelayTxFee, files,
                 copies, ret, initErrors, initWarnings, chain_clients, handles, maint>>

\* line 248: auto wallets = GetWallets()
UnloadBegin ==
    /\ pc = "unload"
    /\ IF HasClient
       THEN /\ unl' = [unl EXCEPT !.wallets = GetWallets(vpwallets)]
            /\ pc' = "unload_loop"
       ELSE /\ pc' = AfterStep("unload", TRUE)
            /\ UNCHANGED unl
    /\ UNCHANGED <<vpwallets, calls, released>>
    /\ UNCHANGED UnloadFrame

\* UnloadRemove changed to take the first wallet out of the registry
UnloadRemoveFirstRegistered ==
    /\ pc = "unload_loop"
    /\ unl.wallets # <<>>
    /\ unl' = [unl EXCEPT !.wallet = unl.wallets[Len(unl.wallets)],
                          !.wallets = SubSeq(@, 1, Len(@) - 1)]
    /\ vpwallets' = RemoveWallet(vpwallets, Head(vpwallets))
    /\ pc' = "unload_call"
    /\ UNCHANGED <<calls, released>>
    /\ UNCHANGED UnloadFrame

\* UnloadRemove changed to leave the wallet in the registry
UnloadRemoveKeepsRegistered ==
    /\ pc = "unload_loop"
    /\ unl.wallets # <<>>
    /\ unl' = [unl EXCEPT !.wallet = unl.wallets[Len(unl.wallets)],
                          !.wallets = SubSeq(@, 1, Len(@) - 1)]
    /\ pc' = "unload_call"
    /\ UNCHANGED <<vpwallets, calls, released>>
    /\ UNCHANGED UnloadFrame

\* lines 249-252: wallet = wallets.back(); wallets.pop_back(); RemoveWallet(wallet)
UnloadRemove ==
    /\ pc = "unload_loop"
    /\ unl.wallets # <<>>
    /\ LET wallet == unl.wallets[Len(unl.wallets)]
       IN  /\ unl' = [unl EXCEPT !.wallet = wallet,
                                 !.wallets = SubSeq(@, 1, Len(@) - 1)]
           /\ vpwallets' = RemoveWallet(vpwallets, wallet)
    /\ pc' = "unload_call"
    /\ UNCHANGED <<calls, released>>
    /\ UNCHANGED UnloadFrame

\* line 253: UnloadWallet(std::move(wallet)) is entered; it will end in one
\* of `answers`, and an exception leaves UnloadWallets and ends the run
UnloadCallWith(answers) ==
    /\ pc = "unload_call"
    /\ unl' = [unl EXCEPT !.releasing = TRUE]
    /\ \E outcome \in answers :
          /\ calls' = Append(calls, Call("UnloadWallet", unl.wallet, NoFile, FALSE, outcome))
          /\ pc' = IF outcome = "threw" THEN "exit" ELSE "unload_wait"
    /\ UNCHANGED <<vpwallets, released>>
    /\ UNCHANGED UnloadFrame

UnloadCall == UnloadCallWith({"ok"})

UnloadCallMayThrow == UnloadCallWith(DrainOutcomes)

\* line 253: UnloadWallet returns, the wallet is released
UnloadReturn ==
    /\ pc = "unload_wait"
    /\ released' = released \cup {unl.wallet}
    /\ unl' = [unl EXCEPT !.wallet = 0, !.releasing = FALSE]
    /\ pc' = "unload_loop"
    /\ UNCHANGED <<vpwallets, calls>>
    /\ UNCHANGED UnloadFrame

\* line 249: the loop ends when the copy is empty
UnloadEnd ==
    /\ pc = "unload_loop"
    /\ unl.wallets = <<>>
    /\ pc' = AfterStep("unload", TRUE)
    /\ UNCHANGED <<vpwallets, calls, released, unl>>
    /\ UNCHANGED UnloadFrame

-----------------------------------------------------------------------------
(* The periodic task StartWallets schedules (MaybeCompactWalletDB): it      *)
(* takes a copy of the registry and works on each handle of the copy.       *)

Scheduled == CallsOf(calls, "scheduleEvery") # <<>>

MaintFrame == <<args, user_args, wallet_args, wallet_set, minRelayTxFee, files,
                copies, pc, ret, initErrors, initWarnings, chain_clients, vpwallets,
                handles, calls, unl, released>>

\* the task fires: for (pwallet : GetWallets())
MaintSnapshot ==
    /\ Scheduled
    /\ pc # "done"
    /\ maint.snap = <<>>
    /\ maint.runs < MaxMaintRuns
    /\ maint' = [maint EXCEPT !.runs = @ + 1, !.snap = GetWallets(vpwallets)]
    /\ UNCHANGED MaintFrame

\* UnloadWallet has been entered for the handle
Unloading(h) == \E i \in 1..Len(calls) : calls[i].op = "UnloadWallet" /\ calls[i].arg = h

\* the maintenance operation on the next handle of the copy; the task's log
\* has the handle and whether UnloadWallet had been entered for it
MaintWork ==
    /\ maint.snap # <<>>
    /\ maint' = [maint EXCEPT
                   !.snap = Tail(@),
                   !.log = Append(@, [wallet |-> Head(maint.snap),
                                      unloading |-> Unloading(Head(maint.snap))])]
    /\ UNCHANGED MaintFrame

-----------------------------------------------------------------------------
(* Specifications *)

Lifecycle ==
    \/ Construct
    \/ VerifyNoWarning
    \/ Load
    \/ Start
    \/ Flush
    \/ Stop
    \/ UnloadBegin
    \/ UnloadRemove
    \/ UnloadCall
    \/ UnloadReturn
    \/ UnloadEnd
    \/ MaintSnapshot
    \/ MaintWork

Next == Lifecycle

Spec == Init /\ [][Next]_vars

NextPI ==
    \/ ParameterInteractionStep
    \/ Construct

SpecPI == InitPI /\ [][NextPI]_vars

NextVerify ==
    \/ Construct
    \/ Verify

SpecVerify == InitVerify /\ [][NextVerify]_vars

NextMigrate ==
    \/ Construct
    \/ Restart

SpecMigrate == InitMigrate /\ [][NextMigrate]_vars

NextDrain ==
    \/ Construct
    \/ VerifyNoWarning
    \/ Load
    \/ StartMayThrow
    \/ FlushMayThrow
    \/ StopMayThrow
    \/ UnloadBegin
    \/ UnloadRemove
    \/ UnloadCallMayThrow
    \/ UnloadReturn
    \/ UnloadEnd

SpecDrain == InitDrain /\ [][NextDrain]_vars

-----------------------------------------------------------------------------
(* Properties *)

Creates == CallsOf(calls, "Create")
Verifies == CallsOf(calls, "Verify")

LoadReturned == ret["load"] # "none"
VerifyReturned == ret["verify"] # "none"

\* between the return of LoadWallets and the first removal of UnloadWallets
\* nothing writes the registry
RegistryAsLoaded == LoadReturned /\ pc \in {"start", "flush", "stop", "unload"}

FirstN(n) == [i \in 1..n |-> i]

\* C1: LoadWallets is a fail-fast batch.  CreateWalletFromFile is called on
\* the identifiers in configured order; a failed construction is the last
\* call made and makes LoadWallets return false; the registry then holds
\* exactly the handles of the identifiers before it, in configured order.
\* With no failure every identifier is constructed, LoadWallets returns true
\* and every handle is registered in configured order.
C1_LoadFailFast ==
    (HasClient /\ LoadReturned) =>
        LET k == Len(Creates)
            m == IF ret["load"] = "false" THEN k - 1 ELSE k
        IN  /\ k <= Len(ClientFiles)
            /\ \A i \in 1..k : Creates[i].file = ClientFiles[i]
            /\ \A i \in 1..k : Creates[i].res = "null" => i = k /\ ret["load"] = "false"
            /\ ret["load"] = "false" => k >= 1 /\ Creates[k].res = "null"
            /\ ret["load"] = "true" => k = Len(ClientFiles)
            /\ Len(handles) = m
            /\ \A i \in 1..m : handles[i] = WalletLocation(args, ClientFiles[i])
            /\ RegistryAsLoaded => vpwallets = FirstN(m)

\* three identifiers, the second fails: only the first handle is registered
C1_Witness ==
    /\ HasClient
    /\ Len(ClientFiles) = 3
    /\ ret["load"] = "false"
    /\ Len(Creates) = 2
    /\ pc = "flush"
    /\ vpwallets = <<1>>

MidRelease(h) == unl.releasing /\ unl.wallet = h
ReleaseBegun(h) == h \in released \/ MidRelease(h)

\* C2: UnloadWallets removes each handle from the registry before it
\* releases it: no handle of the registry is released or being released,
\* and no handle UnloadWallet was called on is in the registry.  When
\* UnloadWallets has returned the registry is empty and every wallet that
\* was loaded has been released.
C2_RemovedBeforeReleased ==
    /\ \A h \in Range(vpwallets) : ~ReleaseBegun(h)
    /\ \A i \in 1..Len(calls) :
          calls[i].op = "UnloadWallet" => calls[i].arg \notin Range(vpwallets)
    /\ (pc = "done" /\ HasClient) =>
          /\ vpwallets = <<>>
          /\ released = 1..Len(handles)

\* a release in progress while other handles are still registered
C2_Witness ==
    /\ unl.releasing
    /\ unl.wallet = 3
    /\ vpwallets = <<1, 2>>

-----------------------------------------------------------------------------
(* Properties of VerifyWallets (SpecVerify) *)

WalletDirKinds == {"walletdir_not_exist", "walletdir_not_directory", "walletdir_relative"}

\* the -walletdir checks of lines 137-151 raised no error
WalletDirPassed == \A i \in 1..Len(initErrors) : initErrors[i].kind \notin WalletDirKinds

\* the path identifier k of the client's list resolves to
PathAt(k) == WalletLocation(args, ClientFiles[k])

\* identifier k resolves to the path of an earlier identifier
RepeatAt(k) == \E j \in 1..(k - 1) : PathAt(j) = PathAt(k)
HasRepeat == \E k \in 1..Len(ClientFiles) : RepeatAt(k)
FirstRepeat == CHOOSE k \in 1..Len(ClientFiles) :
                  RepeatAt(k) /\ \A j \in 1..(k - 1) : ~RepeatAt(j)

Last(seq) == seq[Len(seq)]

NoneBad == \A i \in 1..Len(Verifies) : Verifies[i].res # "bad"

CountRes(res) == Len(SelectSeq(Verifies, LAMBDA c : c.res = res))

-----------------------------------------------------------------------------
(* Properties of WalletInit::ParameterInteraction (SpecPI) *)

\* ParameterInteraction has returned and Construct has not run yet
PIDone == ret["pi"] # "none" /\ ret["construct"] = "none"

WalletsDisabled == GetBoolArg(user_args, "-disablewallet", DEFAULT_DISABLE_WALLET)

\* the option as the user gave it, read as a flag
UserFlag(name) == GetBoolArg(user_args, name, FALSE)

SoftSetOptions == {"-walletbroadcast", "-rescan", "-persistmempool"}

\* the value of a soft-set option after ParameterInteraction
SoftValue(name, value) == IF user_args[name] # Unset THEN user_args[name] ELSE value

OnlySingleWalletError ==
    /\ ret["pi"] = "false"
    /\ Len(initErrors) = 1
    /\ initErrors[1].kind = "single_wallet_only"

\* C6: with -disablewallet, ParameterInteraction returns true, raises no
\* error and changes no option whatever the other options are, and Construct
\* makes no wallet client and copies no file: the client list and the
\* registry stay empty and no call is made into a wallet.
C6_DisabledShortCircuits ==
    WalletsDisabled =>
        /\ ret["pi"] \in {"none", "true"}
        /\ ret["construct"] \in {"none", "done"}
        /\ initErrors = <<>>
        /\ initWarnings = <<>>
        /\ args = user_args
        /\ wallet_set = (wallet_args # <<>>)
        /\ chain_clients = <<>>
        /\ copies = <<>>
        /\ files = FirstStartFiles
        /\ vpwallets = <<>>
        /\ calls = <<>>
        /\ (ret["pi"] # "none") => pc \in {"construct", "verify"}

\* disabled, with every option set that is an error when wallets are enabled
C6_Witness ==
    /\ WalletsDisabled
    /\ ret["construct"] = "done"
    /\ Len(wallet_args) = 3
    /\ UserFlag("-salvagewallet")
    /\ UserFlag("-zapwallettxes")
    /\ UserFlag("-upgradewallet")
    /\ UserFlag("-sysperms")
    /\ user_args["-prune"] = "1"
    /\ user_args["-rescan"] = "1"
    /\ minRelayTxFee > HIGH_TX_FEE_PER_KB

\* C7: with wallets enabled and two or more identifiers, -salvagewallet and
\* -upgradewallet each make ParameterInteraction return false with the
\* single-wallet error, whatever the other options are (the error names
\* -salvagewallet when that is set); with at most one identifier the
\* single-wallet error is never raised.
C7_MultiWalletSalvageUpgrade ==
    (PIDone /\ ~WalletsDisabled) =>
        /\ (Len(wallet_args) >= 2 /\ UserFlag("-salvagewallet")) =>
              /\ OnlySingleWalletError
              /\ initErrors[1].opt = "-salvagewallet"
        /\ (Len(wallet_args) >= 2 /\ UserFlag("-upgradewallet")) =>
              /\ OnlySingleWalletError
              /\ (~UserFlag("-salvagewallet") /\ ~UserFlag("-zapwallettxes"))
                    => initErrors[1].opt = "-upgradewallet"
        /\ Len(wallet_args) <= 1 =>
              \A i \in 1..Len(initErrors) : initErrors[i].kind # "single_wallet_only"

\* -upgradewallet alone with three wallets, and options set that later
\* rules reject
C7_Witness ==
    /\ PIDone
    /\ ~WalletsDisabled
    /\ Len(wallet_args) = 3
    /\ ~UserFlag("-salvagewallet")
    /\ ~UserFlag("-zapwallettxes")
    /\ UserFlag("-upgradewallet")
    /\ UserFlag("-sysperms")
    /\ initErrors = <<SingleWalletError("-upgradewallet")>>

\* C8: with wallets enabled and -zapwallettxes 1 or 2: two or more
\* identifiers make ParameterInteraction return false with the single-wallet
\* error; with exactly one identifier -rescan is then 1 and -persistmempool
\* is 0 unless the user set them, in which case they keep the user's value.
C8_ZapWalletTxes ==
    (PIDone /\ ~WalletsDisabled /\ user_args["-zapwallettxes"] \in {"1", "2"}) =>
        /\ Len(wallet_args) >= 2 => OnlySingleWalletError
        /\ Len(wallet_args) = 1 =>
              /\ args["-rescan"] = SoftValue("-rescan", "1")
              /\ args["-persistmempool"] = SoftValue("-persistmempool", "0")

\* -zapwallettxes=2 with one wallet and neither option given by the user
C8_Witness ==
    /\ PIDone
    /\ ~WalletsDisabled
    /\ Len(wallet_args) = 1
    /\ user_args["-zapwallettxes"] = "2"
    /\ ~UserFlag("-salvagewallet")
    /\ user_args["-rescan"] = Unset
    /\ user_args["-persistmempool"] = Unset
    /\ args["-rescan"] = "1"
    /\ args["-persistmempool"] = "0"
    /\ ret["pi"] = "true"

\* C9: with wallets enabled, ParameterInteraction returns false whenever the
\* prune height is above 0 and -rescan is true when it returns, whether the
\* user set it or a soft-set did, for any number of identifiers.
C9_PruneRescan ==
    (PIDone /\ ~WalletsDisabled
        /\ GetIntArg(args, "-prune", 0) > 0
        /\ GetBoolArg(args, "-rescan", FALSE)) => ret["pi"] = "false"

\* -rescan soft-set by -salvagewallet, no wallet configured
C9_Witness ==
    /\ PIDone
    /\ ~WalletsDisabled
    /\ wallet_args = <<>>
    /\ user_args["-prune"] = "1"
    /\ user_args["-rescan"] = Unset
    /\ UserFlag("-salvagewallet")
    /\ args["-rescan"] = "1"
    /\ initErrors = <<PruneRescanError>>

\* C10: ParameterInteraction leaves every option the user set at the user's
\* value, and changes no option other than -walletbroadcast, -rescan and
\* -persistmempool; the -wallet list is as given.
C10_SoftSetKeepsUserValues ==
    (ret["pi"] # "none") =>
        /\ \A o \in OptNames :
              /\ user_args[o] # Unset => args[o] = user_args[o]
              /\ o \notin SoftSetOptions => args[o] = user_args[o]
        /\ PIDone => wallet_set = (wallet_args # <<>>)

\* every soft-set applies, two to options the user set and one to an
\* option the user left unset
C10_Witness ==
    /\ PIDone
    /\ ~WalletsDisabled
    /\ UserFlag("-blocksonly")
    /\ UserFlag("-salvagewallet")
    /\ UserFlag("-zapwallettxes")
    /\ user_args["-walletbroadcast"] = "1"
    /\ args["-walletbroadcast"] = "1"
    /\ user_args["-rescan"] = "0"
    /\ args["-rescan"] = "0"
    /\ user_args["-persistmempool"] = Unset
    /\ args["-persistmempool"] = "0"

-----------------------------------------------------------------------------
(* The -walletdir checks of VerifyWallets (SpecVerify) *)

\* what is wrong with the configured -walletdir, tested in the order exists,
\* is a directory, is absolute; "none" when nothing is
WalletDirFault(wd) ==
    CASE PathOf(wd) \notin {<<Root, "data", "wallets">>, <<Root, "data", ".", "wallets">>,
                            <<"wallets">>, <<Root, "data", "db.log">>}
            -> "walletdir_not_exist"
      [] wd = "/data/db.log" -> "walletdir_not_directory"
      [] Head(PathOf(wd)) # Root -> "walletdir_relative"
      [] OTHER -> "none"

\* C11: with -walletdir configured, VerifyWallets checks the directory
\* before it resolves or verifies any wallet.  A directory that does not
\* exist, a path that is not a directory and a relative path each raise
\* their own error, the only one raised; VerifyWallets then returns false,
\* CWallet::Verify is called for no wallet and the configured value is as
\* the user gave it.  When the three checks pass, -walletdir is replaced by
\* the canonical absolute spelling of the same directory and no other
\* option changes.
C11_WalletDirChecked ==
    (HasClient /\ VerifyReturned /\ IsArgSet(user_args, "-walletdir")) =>
        LET wd == user_args["-walletdir"]
            fault == WalletDirFault(wd)
        IN  IF fault # "none"
            THEN /\ ret["verify"] = "false"
                 /\ initErrors = <<[kind |-> fault, opt |-> wd]>>
                 /\ initWarnings = <<>>
                 /\ Verifies = <<>>
                 /\ args = user_args
            ELSE /\ WalletDirPassed
                 /\ LET now == PathOf(args["-walletdir"])
                    IN  /\ Head(now) = Root
                        /\ \A i \in 1..Len(now) : now[i] # "."
                        /\ Canonical(now) = Canonical(PathOf(wd))
                 /\ \A o \in OptNames \ {"-walletdir"} : args[o] = user_args[o]

\* a relative -walletdir naming an existing directory: the third check
\* fails, before the three configured wallets are looked at
C11_Witness ==
    /\ HasClient
    /\ Len(ClientFiles) = 3
    /\ user_args["-walletdir"] = "wallets"
    /\ ret["verify"] = "false"
    /\ initErrors = <<WalletDirError("walletdir_relative", "wallets")>>
    /\ Verifies = <<>>
    /\ args = user_args

-----------------------------------------------------------------------------
(* Properties of the legacy migration (SpecMigrate) *)

OnDisk(p) == Canonical(p) \in files

\* the two default wallets of the new layout and the legacy wallet
DataDirWallet == DataDir \o WalletDat
WalletDirWallet == GetWalletDir(args) \o WalletDat
LegacyWallet == LegacyDataDir \o WalletDat

\* WalletInit::Construct has run in an earlier start of the process
ConstructedBefore == ret["construct"] # "none"

\* C12: a run of WalletInit::Construct copies at most one file, and it
\* copies only when the sentinel peers.dat is absent, no wallet.dat is in
\* the data directory or in the wallet directory, and the legacy wallet.dat
\* exists; the copy is from the legacy wallet to the wallet.dat of the
\* wallet directory, which did not exist, and it removes and rewrites no
\* other file.  Without a copy the disk is as it was.  A run after an
\* earlier run copies nothing and leaves the disk as it was.
C12_LegacyMigration ==
    [][Construct =>
         /\ \/ /\ copies' = copies
               /\ files' = files
            \/ /\ ~OnDisk(PeersDat)
               /\ ~OnDisk(DataDirWallet)
               /\ ~OnDisk(WalletDirWallet)
               /\ OnDisk(LegacyWallet)
               /\ Len(copies') = Len(copies) + 1
               /\ Canonical(copies'[Len(copies')][1]) = Canonical(LegacyWallet)
               /\ Canonical(copies'[Len(copies')][2]) = Canonical(WalletDirWallet)
               /\ files' = files \cup {Canonical(WalletDirWallet)}
         /\ ConstructedBefore => copies' = copies /\ files' = files
    ]_vars

\* the first run copied the legacy wallet, the node wrote peers.dat, and
\* the run after it has made its wallet client
C12_Witness ==
    /\ Len(copies) = 1
    /\ Canonical(copies[1][2]) = DataDir \o <<"wallets">> \o WalletDat
    /\ OnDisk(PeersDat)
    /\ OnDisk(LegacyWallet)
    /\ ~OnDisk(DataDirWallet)
    /\ pc = "verify"
    /\ HasClient

-----------------------------------------------------------------------------
(* The order of the error rules of ParameterInteraction (SpecPI) *)

ErrorRules == {"salvage", "zap", "upgrade", "sysperms", "prune"}

\* the rule is broken by the options ParameterInteraction leaves (-rescan
\* may have been soft-set by the time the prune rule reads it)
Broken(rule) ==
    CASE rule = "salvage" -> Len(wallet_args) >= 2 /\ UserFlag("-salvagewallet")
      [] rule = "zap" -> Len(wallet_args) >= 2 /\ UserFlag("-zapwallettxes")
      [] rule = "upgrade" -> Len(wallet_args) >= 2 /\ UserFlag("-upgradewallet")
      [] rule = "sysperms" -> UserFlag("-sysperms")
      [] rule = "prune" -> /\ user_args["-prune"] \notin {Unset, "0"}
                           /\ args["-rescan"] \notin {Unset, "0"}

ErrorOfRule(rule) ==
    CASE rule = "salvage" -> SingleWalletError("-salvagewallet")
      [] rule = "zap" -> SingleWalletError("-zapwallettxes")
      [] rule = "upgrade" -> SingleWalletError("-upgradewallet")
      [] rule = "sysperms" -> SyspermsError
      [] rule = "prune" -> PruneRescanError

\* ParameterInteraction reports the first broken rule of `order` and nothing
\* else, and returns true when no rule is broken
ReportsFirstBroken(order) ==
    (PIDone /\ ~WalletsDisabled) =>
        IF \E i \in 1..Len(order) : Broken(order[i])
        THEN LET first == CHOOSE i \in 1..Len(order) :
                             Broken(order[i]) /\ \A j \in 1..(i - 1) : ~Broken(order[j])
             IN  /\ ret["pi"] = "false"
                 /\ initErrors = <<ErrorOfRule(order[first])>>
        ELSE /\ ret["pi"] = "true"
             /\ initErrors = <<>>

\* C13 as stated: the multi-wallet salvage and upgrade rules come before the
\* multi-wallet zap rule, then sysperms, then prune with rescan.
C13_AsStated ==
    ReportsFirstBroken(<<"salvage", "upgrade", "zap", "sysperms", "prune">>)

\* C13 (amended): with several rules broken the one error raised is that of
\* the first broken rule in the order multi-wallet salvage, multi-wallet
\* zap, multi-wallet upgrade, sysperms, prune with rescan; with two or more
\* wallets and both -zapwallettxes and -upgradewallet it is the zap error.
C13_FirstBrokenRule ==
    ReportsFirstBroken(<<"salvage", "zap", "upgrade", "sysperms", "prune">>)

\* three wallets, zap, upgrade, sysperms and prune with rescan together:
\* the zap error is the one reported
C13_Witness ==
    /\ PIDone
    /\ ~WalletsDisabled
    /\ Len(wallet_args) = 3
    /\ \A r \in ErrorRules \ {"salvage"} : Broken(r)
    /\ ~Broken("salvage")
    /\ ret["pi"] = "false"
    /\ initErrors = <<SingleWalletError("-zapwallettxes")>>

-----------------------------------------------------------------------------
(* The high-fee warning of ParameterInteraction (SpecPI) *)

HighFee == minRelayTxFee > HIGH_TX_FEE_PER_KB

\* C14 as stated: with wallets enabled and a fee above the threshold the
\* warning is raised whether ParameterInteraction returns true or false.
C14_AsStated ==
    (PIDone /\ ~WalletsDisabled /\ HighFee) =>
        \E i \in 1..Len(initWarnings) : initWarnings[i] = HighFeeWarning

\* C14 (amended): ParameterInteraction raises the high-fee warning, once,
\* exactly when wallets are enabled, the fee is above the threshold and it
\* returns true; when an error rule makes it return false no warning is
\* raised.  The fee has no part in the result: ParameterInteraction returns
\* false exactly when an error rule is broken.
C14_HighFeeWarning ==
    PIDone =>
        /\ initWarnings = IF ~WalletsDisabled /\ HighFee /\ ret["pi"] = "true"
                          THEN <<HighFeeWarning>> ELSE <<>>
        /\ ret["pi"] = "false" <=>
              (~WalletsDisabled /\ \E r \in ErrorRules : Broken(r))

\* a fee above the threshold and -sysperms: the error, and no warning
C14_Witness ==
    /\ PIDone
    /\ ~WalletsDisabled
    /\ HighFee
    /\ ret["pi"] = "false"
    /\ initErrors = <<SyspermsError>>
    /\ initWarnings = <<>>

-----------------------------------------------------------------------------
(* The periodic task beside UnloadWallets (Spec) *)

\* what a lookup of the registry returns has no handle whose release has
\* begun
LookupsAlive ==
    \A h \in Range(GetWallets(vpwallets)) : ~Unloading(h) /\ ~ReleaseBegun(h)

\* positions of seq followed by a handle that is not a later one
Descents(seq) == {i \in 1..(Len(seq) - 1) : seq[i] >= seq[i + 1]}

\* the handles the task has worked on and is still to work on
MaintWallets == [i \in 1..Len(maint.log) |-> maint.log[i].wallet] \o maint.snap

\* C15 as stated: no lookup returns a handle whose release has begun, and
\* the maintenance operation is never invoked on one.
C15_AsStated ==
    /\ LookupsAlive
    /\ \A i \in 1..Len(maint.log) : ~maint.log[i].unloading

\* C15 (amended): under every interleaving of the periodic task with
\* UnloadWallets no lookup of the registry returns a handle whose release
\* has begun.  The task works on the copy it took, each run on loaded
\* wallets in registry order; a handle of the copy may have been removed and
\* its release begun by the time the task works on it, and such a handle is
\* then no longer in the registry.
C15_LookupsNeverSeeReleasing ==
    /\ LookupsAlive
    /\ \A i \in 1..Len(maint.log) :
          /\ maint.log[i].wallet \in 1..Len(handles)
          /\ maint.log[i].unloading => maint.log[i].wallet \notin Range(vpwallets)
    /\ MaintWallets # <<>> => Cardinality(Descents(MaintWallets)) < maint.runs

\* the task took its copy of three wallets, UnloadWallets removed the third
\* and entered its release, and the task has then worked on it
C15_Witness ==
    /\ unl.releasing
    /\ unl.wallet = 3
    /\ vpwallets = <<1, 2>>
    /\ Len(maint.log) = 3
    /\ maint.log[3] = [wallet |-> 3, unloading |-> TRUE]
    /\ ~maint.log[1].unloading

-----------------------------------------------------------------------------
(* Calls that fail in StartWallets, FlushWallets, StopWallets and           *)
(* UnloadWallets (SpecDrain)                                                *)

CallsFor(op, flag) == SelectSeq(calls, LAMBDA c : c.op = op /\ c.flag = flag)

\* the call of each of the three loops over GetWallets()
DrainOps == {<<"postInitProcess", FALSE>>, <<"Flush", FALSE>>, <<"Flush", TRUE>>}

Unloads == CallsOf(calls, "UnloadWallet")

NotOk(cs) == \E i \in 1..Len(cs) : cs[i].res # "ok"
HasThrown(cs) == \E i \in 1..Len(cs) : cs[i].res = "threw"

\* StartWallets has been called and left
StartRan == HasClient /\ ret["load"] = "true" /\ pc # "start"

-----------------------------------------------------------------------------
(* StartWallets (Spec) *)

Hooks == CallsOf(calls, "postInitProcess")

\* the positions in the log of the calls of op
PositionsOf(op) == {i \in 1..Len(calls) : calls[i].op = op}

\* C17: StartWallets calls postInitProcess exactly once on every handle of
\* the registry, in registry order, and then calls scheduleEvery exactly
\* once, with interval 500, after every postInitProcess call; with an empty
\* registry it makes the scheduleEvery call alone.  Before StartWallets has
\* run neither call has been made.
C17_StartWallets ==
    IF StartRan
    THEN /\ [i \in 1..Len(Hooks) |-> Hooks[i].arg] = FirstN(Len(handles))
         /\ pc = "flush" => [i \in 1..Len(Hooks) |-> Hooks[i].arg] = vpwallets
         /\ Cardinality(PositionsOf("scheduleEvery")) = 1
         /\ \A i \in PositionsOf("scheduleEvery") :
               /\ calls[i].arg = 500
               /\ \A j \in PositionsOf("postInitProcess") : j < i
    ELSE /\ PositionsOf("postInitProcess") = {}
         /\ PositionsOf("scheduleEvery") = {}

\* StartWallets has just run over three wallets
C17_Witness ==
    /\ StartRan
    /\ pc = "flush"
    /\ vpwallets = <<1, 2, 3>>
    /\ Len(Hooks) = 3
    /\ calls[Len(calls)].op = "scheduleEvery"

-----------------------------------------------------------------------------
(* The order of the shutdown functions (Spec) *)

ArgsOf(cs) == [i \in 1..Len(cs) |-> cs[i].arg]

\* the handles in the order LoadWallets registered them, and the reverse
LoadOrder(n) == FirstN(n)
ReverseLoadOrder(n) == [i \in 1..n |-> Len(handles) - i + 1]

\* FlushWallets, StopWallets have been called and left
FlushRan == HasClient /\ pc \notin {"construct", "verify", "load", "start", "flush"}
StopRan == FlushRan /\ pc # "stop"

\* C18 as stated: each of the three goes from the last wallet loaded to the
\* first.
C18_AsStated ==
    /\ ArgsOf(CallsFor("Flush", FALSE)) = ReverseLoadOrder(Len(CallsFor("Flush", FALSE)))
    /\ ArgsOf(CallsFor("Flush", TRUE)) = ReverseLoadOrder(Len(CallsFor("Flush", TRUE)))
    /\ ArgsOf(Unloads) = ReverseLoadOrder(Len(Unloads))

\* C18 (amended): FlushWallets and StopWallets call Flush on the handles in
\* the order LoadWallets registered them, the first wallet loaded first;
\* UnloadWallets alone goes in reverse, the last wallet loaded removed and
\* released first.
C18_ShutdownOrder ==
    /\ ArgsOf(CallsFor("Flush", FALSE)) = LoadOrder(Len(CallsFor("Flush", FALSE)))
    /\ ArgsOf(CallsFor("Flush", TRUE)) = LoadOrder(Len(CallsFor("Flush", TRUE)))
    /\ FlushRan => Len(CallsFor("Flush", FALSE)) = Len(handles)
    /\ StopRan => Len(CallsFor("Flush", TRUE)) = Len(handles)
    /\ ArgsOf(Unloads) = ReverseLoadOrder(Len(Unloads))
    /\ (pc = "done" /\ HasClient) => Len(Unloads) = Len(handles)

\* the shutdown of three wallets is over
C18_Witness ==
    /\ pc = "done"
    /\ Len(handles) = 3
    /\ ArgsOf(CallsFor("Flush", FALSE)) = <<1, 2, 3>>
    /\ ArgsOf(CallsFor("Flush", TRUE)) = <<1, 2, 3>>
    /\ ArgsOf(Unloads) = <<3, 2, 1>>

-----------------------------------------------------------------------------
(* The salvage argument of CWallet::Verify (SpecVerify) *)

\* C19: in every call VerifyWallets makes to CWallet::Verify the salvage
\* argument is true exactly when -salvagewallet is set and the list has
\* exactly one identifier; for a list of two or more it is false in every
\* call, -salvagewallet set or not.
C19_SalvageArgument ==
    HasClient =>
        \A i \in 1..Len(Verifies) :
            /\ Verifies[i].flag = (UserFlag("-salvagewallet") /\ Len(ClientFiles) = 1)
            /\ Len(ClientFiles) >= 2 => ~Verifies[i].flag

\* -salvagewallet with three wallets, all three verified without salvage
C19_Witness ==
    /\ HasClient
    /\ UserFlag("-salvagewallet")
    /\ Len(ClientFiles) = 3
    /\ Len(Verifies) = 3
    /\ \A i \in 1..3 : ~Verifies[i].flag

-----------------------------------------------------------------------------
(* What the functions leave alone (Spec) *)

\* FlushWallets has asked every handle once for the soft flush and
\* StopWallets every handle once for the hard flush, and no flush is asked
\* for before
FlushedOnce ==
    /\ ArgsOf(CallsFor("Flush", FALSE)) = IF FlushRan THEN FirstN(Len(handles)) ELSE <<>>
    /\ ArgsOf(CallsFor("Flush", TRUE)) = IF StopRan THEN FirstN(Len(handles)) ELSE <<>>
    /\ FlushRan /\ pc \in {"stop", "unload"} => vpwallets = FirstN(Len(handles))

\* a step of VerifyWallets, StartWallets, FlushWallets or StopWallets
\* leaves the registry and the wallets as they are
RegistryKept ==
    (VerifyNoWarning \/ Start \/ Flush \/ Stop) =>
        /\ vpwallets' = vpwallets
        /\ handles' = handles
        /\ released' = released
        /\ unl' = unl
        /\ \A i \in 1..Len(calls') : i > Len(calls) => calls'[i].op # "UnloadWallet"

\* the registry changes only by LoadWallets appending handles and by
\* UnloadWallets removing one
RegistryChange ==
    vpwallets' # vpwallets =>
        \/ /\ Load
           /\ Len(vpwallets') > Len(vpwallets)
           /\ SubSeq(vpwallets', 1, Len(vpwallets)) = vpwallets
        \/ /\ UnloadRemove
           /\ Len(vpwallets') = Len(vpwallets) - 1
           /\ Range(vpwallets') \subseteq Range(vpwallets)

\* C20: FlushWallets asks every handle of the registry exactly once for a
\* soft flush and StopWallets exactly once for a hard flush; a step of
\* VerifyWallets, StartWallets, FlushWallets or StopWallets adds, removes and
\* releases no handle and leaves the registry's members and order as they
\* are; only LoadWallets adds to the registry and only UnloadWallets removes
\* from it.
C20_FrameOfFlushAndStop ==
    /\ []FlushedOnce
    /\ [][RegistryKept /\ RegistryChange]_vars

\* three wallets flushed and stopped, all three registered and none released
C20_Witness ==
    /\ pc = "unload"
    /\ vpwallets = <<1, 2, 3>>
    /\ released = {}
    /\ ArgsOf(CallsFor("Flush", FALSE)) = <<1, 2, 3>>
    /\ ArgsOf(CallsFor("Flush", TRUE)) = <<1, 2, 3>>
    /\ Unloads = <<>>

=============================================================================
